---- MODULE Spec2Model ----
(***************************************************************************)
(* Model of OwnParser (src/main.py, src/config.py): Parser.main_content,   *)
(* the density pruning of a tag tree, and Formatter.prepare_text, the      *)
(* paragraph splitting, link annotation and reflow of its text.            *)
(*                                                                         *)
(* A Python str is a sequence of one-character strings.  A tag tree is a   *)
(* record [n, parent, tag, text, href]: nodes 1..n in document order of    *)
(* siblings (a node's children are the nodes naming it as parent, in       *)
(* ascending order), node 0 is the BeautifulSoup object itself.  A node    *)
(* tagged "#text" is a NavigableString.                                    *)
(***************************************************************************)
EXTENDS Integers, Sequences, FiniteSets, TLC

VARIABLES
    tree,        \* the tag tree given to main_content (soup), as parsed
    config,      \* Config: STRATEGY, CUSTOM_COEFF, forced, MAX_LENGTH, domain
    decomposed,  \* the nodes node.decompose() was called on
    stack,       \* the frames of main_content, innermost last
    outcome,     \* "running", "returned" (main_content returned soup), "raised"
    visits,      \* history: how often the loop of line 159 took each node
    spared,      \* history: nodes an exemption kept while below the threshold
    maxNest,     \* history: the deepest nesting of main_content frames so far
    output,      \* what prepare_text returned, once it has
    wtext,       \* reflow alone: the text the loop of lines 298-327 is given
    wmax,        \* reflow alone: max_length
    wout,        \* reflow alone: the result
    wout2,       \* reflow alone: the result of reflowing the result
    wstage,      \* reflow alone: "input", "wrapped", "rewrapped"
    anchors,     \* annotate alone: the anchors (href, text) in document order
    page,        \* annotate alone: the text to annotate
    domain,      \* annotate alone: the page's URL
    annotated,   \* annotate alone: what _add_urls returned
    lstage       \* annotate alone: "input", "annotated"

pruneVars == <<tree, config, decomposed, stack, outcome, visits, spared, maxNest, output>>
wrapVars  == <<wtext, wmax, wout, wout2, wstage>>
linkVars  == <<anchors, page, domain, annotated, lstage>>
vars      == <<pruneVars, wrapVars, linkVars>>

Max(a, b) == IF a >= b THEN a ELSE b

(***************************************************************************)
(* Python strings and the parts of re the code uses.                       *)
(***************************************************************************)

\* \s of Python's re, as far as the model's alphabet goes
Space == {" ", "\n", "\t"}

\* the single characters the third alternative of the regexp of line 299 takes
Punct == {".", ",", "!", "?", ";", "(", ")", "-"}

\* \w of Python's re, as far as the model's alphabet goes
WordChars ==
    {"a","b","c","d","e","f","g","h","i","j","k","l","m","n","o","p","q","r",
     "s","t","u","v","w","x","y","z","A","B","C","D","E","F","G","H","I","J",
     "K","L","M","N","O","P","Q","R","S","T","U","V","W","X","Y","Z","0","1",
     "2","3","4","5","6","7","8","9","_"}

\* s[i:i+len(pat)] == pat
StartsAt(s, i, pat) ==
    /\ i + Len(pat) - 1 <= Len(s)
    /\ \A k \in 1..Len(pat) : s[i + k - 1] = pat[k]

\* pat in s
Contains(s, pat) == \E i \in 1..(Len(s) + 1) : StartsAt(s, i, pat)

\* the least of a non-empty set of numbers
Least(S) == CHOOSE x \in S : \A y \in S : x <= y

\* the first index from i on at which pat occurs in s, and 0 when there is none
NextMatch(s, i, pat) ==
    LET at == {j \in i..(Len(s) - Len(pat) + 1) : StartsAt(s, j, pat)}
    IN  IF at = {} THEN 0 ELSE Least(at)

RECURSIVE ReplaceFrom(_, _, _, _)
ReplaceFrom(s, i, old, new) ==
    IF old = <<>>
        THEN \* an empty old matches before every character and at the end
             IF i > Len(s) THEN new
             ELSE new \o <<s[i]>> \o ReplaceFrom(s, i + 1, old, new)
    ELSE IF NextMatch(s, i, old) = 0 THEN SubSeq(s, i, Len(s))
    ELSE SubSeq(s, i, NextMatch(s, i, old) - 1) \o new
             \o ReplaceFrom(s, NextMatch(s, i, old) + Len(old), old, new)

\* str.replace(old, new): every occurrence, leftmost first, not overlapping
Replace(s, old, new) == ReplaceFrom(s, 1, old, new)

RECURSIVE LStrip(_)
\* str.lstrip()
LStrip(s) == IF s # <<>> /\ Head(s) \in Space THEN LStrip(Tail(s)) ELSE s

RECURSIVE RStrip(_)
\* str.rstrip()
RStrip(s) ==
    IF s # <<>> /\ s[Len(s)] \in Space THEN RStrip(SubSeq(s, 1, Len(s) - 1)) ELSE s

\* str.strip()
Strip(s) == RStrip(LStrip(s))

RECURSIVE Concat(_)
\* ''.join(parts)
Concat(parts) == IF parts = <<>> THEN <<>> ELSE Head(parts) \o Concat(Tail(parts))

(***************************************************************************)
(* The tokens of line 299:                                                 *)
(*   (\[(https?://[^\s]+)\]|[\w]+|[\s.,!?;\()-])                           *)
(***************************************************************************)

\* the last index of the longest run of characters of `class` that starts at i
\* (i - 1 when s[i] is not of the class)
RunEnd(s, i, class) ==
    LET stops == {j \in i..Len(s) : s[j] \notin class}
    IN  IF stops = {} THEN Len(s) ELSE Least(stops) - 1

\* the characters of the model's alphabet that are not \s
NonSpace == WordChars \cup Punct \cup {"[", "]", ":", "/", "\\", "+"}

\* where the first alternative, \[(https?://[^\s]+)\], ends when it matches at i,
\* and 0 when it does not: [^\s]+ is greedy and gives back down to the last "]"
MarkerEnd(s, i) ==
    IF ~StartsAt(s, i, <<"[", "h", "t", "t", "p">>) THEN 0
    ELSE
        LET afterS == IF StartsAt(s, i + 5, <<"s">>) THEN i + 6 ELSE i + 5
        IN  IF ~StartsAt(s, afterS, <<":", "/", "/">>) THEN 0
            ELSE
                LET first == afterS + 3
                    last  == RunEnd(s, first, NonSpace)
                    ends  == {e \in (first + 1)..last : s[e] = "]"}
                IN  IF ends = {} THEN 0
                    ELSE -Least({-e : e \in ends})

RECURSIVE FindAll(_, _)
\* re.findall of line 299 from index i on: word[0] of every match, in order
FindAll(s, i) ==
    IF i > Len(s) THEN <<>>
    ELSE IF MarkerEnd(s, i) # 0
        THEN <<SubSeq(s, i, MarkerEnd(s, i))>> \o FindAll(s, MarkerEnd(s, i) + 1)
    ELSE IF s[i] \in WordChars
        THEN <<SubSeq(s, i, RunEnd(s, i, WordChars))>>
                 \o FindAll(s, RunEnd(s, i, WordChars) + 1)
    ELSE IF s[i] \in Space \cup Punct
        THEN <<SubSeq(s, i, i)>> \o FindAll(s, i + 1)
    ELSE FindAll(s, i + 1)

\* sp2 of line 299
Tokens(s) == FindAll(s, 1)

(***************************************************************************)
(* The reflow loop of prepare_text, lines 301-327.                         *)
(***************************************************************************)

\* line 318 as length = 1: the token put after the break is not counted
LengthAfterBreakReset(w) == 1

\* length after a token put by the branch of line 315
LengthAfterBreak(w) == Len(w) + 1

\* one turn of the loop of line 305 on token `word`
WrapWord(st, word, max_length) ==
    LET w    == IF st.length = 1 THEN LStrip(word) ELSE word
        len1 == st.length + Len(word)
        nl   == (w = <<"\n">>)
        out1 == IF nl THEN st.new_string \o <<"\n">> ELSE st.new_string
        len2 == IF nl THEN 1 ELSE len1
    IN  IF len2 > max_length
            THEN [new_string |-> out1 \o <<"\n">> \o w, length |-> LengthAfterBreak(w)]
        ELSE IF len2 = max_length
            THEN [new_string |-> out1 \o w \o <<"\n">>, length |-> 1]
        ELSE [new_string |-> out1 \o w, length |-> len2]

RECURSIVE WrapLoop(_, _, _)
WrapLoop(st, words, max_length) ==
    IF words = <<>> THEN st
    ELSE WrapLoop(WrapWord(st, Head(words), max_length), Tail(words), max_length)

\* lines 298-327: tokenize, reflow, collapse
Reflow(text, max_length) ==
    Replace(WrapLoop([new_string |-> <<>>, length |-> 1], Tokens(text), max_length).new_string,
            <<"\n", "\n", "\n">>, <<"\n">>)

(***************************************************************************)
(* The tag tree: what the code asks of bs4.                                *)
(***************************************************************************)

RECURSIVE SortedSeq(_)
\* the numbers of S in ascending order
SortedSeq(S) ==
    IF S = {} THEN <<>>
    ELSE <<Least(S)>> \o SortedSeq(S \ {Least(S)})

RECURSIVE InSubtree(_, _, _)
\* x is a, or a descendant of a, in the tree as parsed
InSubtree(t, a, x) ==
    IF x = a THEN TRUE
    ELSE IF x = 0 THEN FALSE
    ELSE InSubtree(t, a, t.parent[x])

\* x is still part of soup: decompose() was called neither on it nor on an ancestor
Alive(t, dec, x) == \A d \in dec : ~InSubtree(t, d, x)

\* node.contents: decompose() takes the node out of its parent's contents and
\* leaves every node of the destroyed subtree with contents == []
Contents(t, dec, x) ==
    IF ~Alive(t, dec, x) THEN <<>>
    ELSE SelectSeq([i \in 1..t.n |-> i],
                   LAMBDA c : t.parent[c] = x /\ c \notin dec)

\* a Tag, and not a NavigableString: soup itself is one
IsTag(t, x) == x = 0 \/ t.tag[x] # "#text"

\* node.find_all(True, recursive=False): the Tag children, in order
FindAllDirect(t, dec, x) == SelectSeq(Contents(t, dec, x), LAMBDA c : IsTag(t, c))

RECURSIVE Descendants(_, _, _)
RECURSIVE DescendantsOfAll(_, _, _)
\* node.descendants: document order
Descendants(t, dec, x) == DescendantsOfAll(t, dec, Contents(t, dec, x))
DescendantsOfAll(t, dec, cs) ==
    IF cs = <<>> THEN <<>>
    ELSE <<Head(cs)>> \o Descendants(t, dec, Head(cs)) \o DescendantsOfAll(t, dec, Tail(cs))

\* node.find_all(name)
FindAll_(t, dec, x, name) ==
    SelectSeq(Descendants(t, dec, x), LAMBDA c : t.tag[c] = name)

\* node.text: the strings below the node, joined
TextOf(t, dec, x) ==
    LET strs == SelectSeq(Descendants(t, dec, x), LAMBDA c : ~IsTag(t, c))
    IN  Concat([i \in 1..Len(strs) |-> t.text[strs[i]]])

RECURSIVE Shape(_, _, _)
\* what Tag.__eq__ and Tag.__hash__ go by: name, attrs and contents, recursively
\* (a NavigableString goes by its characters)
Shape(t, dec, x) ==
    LET cs == Contents(t, dec, x)
    IN  <<t.tag[x],
          IF IsTag(t, x) THEN t.href[x] ELSE t.text[x],
          [i \in 1..Len(cs) |-> Shape(t, dec, cs[i])]>>

RECURSIVE MaxOf(_)
MaxOf(ns) == IF Len(ns) = 1 THEN ns[1] ELSE Max(ns[1], MaxOf(Tail(ns)))

RECURSIVE SumOf(_)
SumOf(ns) == IF ns = <<>> THEN 0 ELSE Head(ns) + SumOf(Tail(ns))

(***************************************************************************)
(* Parser                                                                  *)
(***************************************************************************)

RECURSIVE CalcDepth(_, _, _)
\* Parser._calc_depth
CalcDepth(t, dec, x) ==
    LET cs == Contents(t, dec, x)
    IN  IF IsTag(t, x) /\ cs # <<>>
            THEN MaxOf([i \in 1..Len(cs) |-> CalcDepth(t, dec, cs[i])]) + 1
        ELSE 0

\* node_density.update({node: density}): a key equal to node keeps its place
\* (and stays the key), and takes the value
DictUpdate(t, dec, d, node, density) ==
    IF \E i \in 1..Len(d) : Shape(t, dec, d[i].node) = Shape(t, dec, node)
        THEN [i \in 1..Len(d) |->
                 IF Shape(t, dec, d[i].node) = Shape(t, dec, node)
                     THEN [node |-> d[i].node, density |-> density]
                 ELSE d[i]]
    ELSE Append(d, [node |-> node, density |-> density])

RECURSIVE CalcDensityLoop(_, _, _, _)
CalcDensityLoop(t, dec, d, nodes) ==
    IF nodes = <<>> THEN d
    ELSE CalcDensityLoop(t, dec,
             DictUpdate(t, dec, d, Head(nodes), CalcDepth(t, dec, Head(nodes))),
             Tail(nodes))

\* Parser._calc_density: a dict, its items in insertion order
CalcDensity(t, dec, nodes) == CalcDensityLoop(t, dec, <<>>, nodes)

\* density.keys()
Keys(d) == [i \in 1..Len(d) |-> d[i].node]

\* density.values()
Values(d) == [i \in 1..Len(d) |-> d[i].density]

\* density[node]
Lookup(d, node) == (CHOOSE e \in {d[i] : i \in 1..Len(d)} : e.node = node).density

\* line 162
IsContentTag(name) == name \in {"p", "h1", "h2"}

\* the number of p descendants above which forced keeps a node (line 170)
ForcedMinP == 3

\* line 170: len(node.find_all('p')) > 3
ManyParagraphs(t, dec, node) == Len(FindAll_(t, dec, node, "p")) > ForcedMinP

\* lines 165-166 left out: a node is not kept for the h1 it holds
HoldsH1Never(t, dec, node) == FALSE

\* line 165: node.h1, the first h1 below the node, is not None
HoldsH1(t, dec, node) == FindAll_(t, dec, node, "h1") # <<>>

\* lines 162-171: the node is kept whatever its density
Exempt(t, dec, node, forced) ==
    \/ IsContentTag(t.tag[node])
    \/ HoldsH1(t, dec, node)
    \/ forced /\ ManyParagraphs(t, dec, node)

\* line 174 as density[node] <= avg
BelowOrEqual(density, avg) == density * avg.den <= avg.num

\* line 174: density[node] < avg, avg being num/den
Below(density, avg) == density * avg.den < avg.num

Unbound == [bound |-> FALSE, num |-> 0, den |-> 1]

\* lines 144-153: avg after them, given avg before
Threshold(strategy, coef, d, avg) ==
    IF strategy = "AVG" THEN [bound |-> TRUE, num |-> SumOf(Values(d)), den |-> Len(d)]
    ELSE IF strategy = "CUSTOM"
        THEN [bound |-> TRUE, num |-> SumOf(Values(d)) * coef.num, den |-> coef.den]
    ELSE avg

(***************************************************************************)
(* Parser.main_content, lines 108-181, one frame per call.  A frame holds  *)
(* the call's locals: density (the parameter, rebound at lines 132 and     *)
(* 141), the keys the loop of line 137 walks (those of the dict density    *)
(* named when the loop began: rebinding density does not change them) and  *)
(* its place oi in them, avg, and the place ri of the loop of line 178.    *)
(* pc: "entry" (line 128), "resume" (line 135, after the call of line 133  *)
(* came back), "outer" (line 137), "recurse" (line 178), "return" (181).   *)
(***************************************************************************)

RECURSIVE Settle(_)
\* a frame moved past the loops that have nothing left to do: the loop of
\* line 178 at its end goes on with the loop of line 137, and that one at
\* its end goes to line 181
Settle(f) ==
    IF f.pc = "recurse" /\ f.ri > Len(f.density)
        THEN Settle([f EXCEPT !.pc = "outer", !.oi = f.oi + 1])
    ELSE IF f.pc = "outer" /\ f.oi > Len(f.outer)
        THEN [f EXCEPT !.pc = "return"]
    ELSE f

\* lines 135-137 of a call: into the loop over density.keys(), or past it
\* when strategy is None
IntoLoops(f, strategy) ==
    IF strategy = "None" THEN [f EXCEPT !.pc = "return"]
    ELSE Settle([f EXCEPT !.pc = "outer", !.outer = Keys(f.density), !.oi = 1])

\* the frame of main_content(density=None, soup=soup)
EntryFrame ==
    [pc |-> "entry", density |-> <<>>, outer |-> <<>>, oi |-> 1, avg |-> Unbound, ri |-> 1]

\* the frame of main_content(density=d, soup=soup) at its first loop
CalleeFrame(d, strategy) ==
    IntoLoops([pc |-> "entry", density |-> d, outer |-> <<>>, oi |-> 1,
               avg |-> Unbound, ri |-> 1], strategy)

\* the density the call of line 179 passes on
PassedOn(f) == f.density

\* lines 147-148 left out: no strategy skips an empty sibling set
SkipEmptyNever(strategy, d) == FALSE

\* whether the loop of line 137 skips a node whose children give no density
\* under strategy (lines 147-148)
SkipEmpty(strategy, d) == strategy = "AVG" /\ Len(d) = 0

Top == stack[Len(stack)]

SetTop(f) == [stack EXCEPT ![Len(stack)] = f]

\* lines 128-133: density is None, so the children of soup are taken and
\* main_content is called on their density
EntryPoint ==
    /\ outcome = "running"
    /\ stack # <<>>
    /\ Top.pc = "entry"
    /\ LET d == CalcDensity(tree, decomposed, FindAllDirect(tree, decomposed, 0))
       IN  stack' = Append(SetTop([Top EXCEPT !.pc = "resume", !.density = d]),
                           CalleeFrame(d, config.strategy))
    /\ maxNest' = Max(maxNest, Len(stack'))
    /\ UNCHANGED <<tree, config, decomposed, outcome, visits, spared, output>>
    /\ UNCHANGED <<wrapVars, linkVars>>

\* lines 135-137 of the first call, after the call of line 133 came back
EnterLoops ==
    /\ outcome = "running"
    /\ stack # <<>>
    /\ Top.pc = "resume"
    /\ stack' = SetTop(IntoLoops(Top, config.strategy))
    /\ UNCHANGED <<tree, config, decomposed, outcome, visits, spared, maxNest, output>>
    /\ UNCHANGED <<wrapVars, linkVars>>

\* lines 137-175: one turn of the loop of line 137, the loop of line 159 within
Evaluate ==
    /\ outcome = "running"
    /\ stack # <<>>
    /\ Top.pc = "outer"
    /\ LET node   == Top.outer[Top.oi]
           childs == FindAllDirect(tree, decomposed, node)
           d      == CalcDensity(tree, decomposed, childs)
           avg    == Threshold(config.strategy, config.coef, d, Top.avg)
           keys   == Keys(d)
           kept   == {keys[i] : i \in {j \in 1..Len(keys) :
                          Exempt(tree, decomposed, keys[j], config.forced)}}
           judged == {keys[i] : i \in 1..Len(keys)} \ kept
           \* the keys visited: all of them, or those up to the first one
           \* that reaches line 174 with avg unbound
           upTo   == IF avg.bound \/ judged = {} THEN Len(keys)
                     ELSE CHOOSE i \in 1..Len(keys) :
                              /\ keys[i] \in judged
                              /\ \A j \in 1..(i - 1) : keys[j] \notin judged
           \* line 150 divides by len(density.values())
           byZero == config.strategy = "AVG" /\ Len(d) = 0
           seen   == IF byZero THEN {} ELSE {keys[i] : i \in 1..upTo}
       IN  IF SkipEmpty(config.strategy, d)
               THEN /\ stack' = SetTop(Settle([Top EXCEPT !.density = d, !.oi = Top.oi + 1]))
                    /\ UNCHANGED <<decomposed, outcome, visits, spared>>
           ELSE IF byZero \/ (~avg.bound /\ judged # {})
               THEN \* ZeroDivisionError at line 150 or UnboundLocalError at
                    \* line 174: nothing catches it
                    /\ stack' = <<>>
                    /\ outcome' = "raised"
                    /\ visits' = [n \in DOMAIN visits |->
                                     IF n \in seen THEN visits[n] + 1 ELSE visits[n]]
                    /\ UNCHANGED <<decomposed, spared>>
           ELSE /\ decomposed' = decomposed \cup
                        {n \in judged : Below(Lookup(d, n), avg)}
                /\ spared' = spared \cup
                        {n \in kept : avg.bound /\ Below(Lookup(d, n), avg)}
                /\ visits' = [n \in DOMAIN visits |->
                                 IF n \in seen THEN visits[n] + 1 ELSE visits[n]]
                /\ stack' = SetTop(Settle([Top EXCEPT !.density = d, !.avg = avg,
                                                      !.pc = "recurse", !.ri = 1]))
                /\ UNCHANGED outcome
    /\ UNCHANGED <<tree, config, maxNest, output>>
    /\ UNCHANGED <<wrapVars, linkVars>>

\* lines 178-179: one call of the loop of line 178
Recurse ==
    /\ outcome = "running"
    /\ stack # <<>>
    /\ Top.pc = "recurse"
    /\ stack' = Append(SetTop([Top EXCEPT !.ri = Top.ri + 1]),
                       CalleeFrame(PassedOn(Top), config.strategy))
    /\ maxNest' = Max(maxNest, Len(stack'))
    /\ UNCHANGED <<tree, config, decomposed, outcome, visits, spared, output>>
    /\ UNCHANGED <<wrapVars, linkVars>>

\* line 181: return soup, to the caller's loop or out of the first call
Return ==
    /\ outcome = "running"
    /\ stack # <<>>
    /\ Top.pc = "return"
    /\ IF Len(stack) = 1
           THEN /\ stack' = <<>>
                /\ outcome' = "returned"
           ELSE /\ stack' = [SubSeq(stack, 1, Len(stack) - 1)
                                EXCEPT ![Len(stack) - 1] = Settle(stack[Len(stack) - 1])]
                /\ UNCHANGED outcome
    /\ UNCHANGED <<tree, config, decomposed, visits, spared, maxNest, output>>
    /\ UNCHANGED <<wrapVars, linkVars>>

(***************************************************************************)
(* Formatter                                                               *)
(***************************************************************************)

RECURSIVE AfterLast(_, _, _, _)
\* s.split(sep)[-1], read from index i on, `from` being where the last piece starts
AfterLast(s, i, from, sep) ==
    IF i > Len(s) THEN SubSeq(s, from, Len(s))
    ELSE IF StartsAt(s, i, sep) THEN AfterLast(s, i + Len(sep), i + Len(sep), sep)
    ELSE AfterLast(s, i + 1, from, sep)

\* s.split(sep)[0]
BeforeFirst(s, sep) ==
    IF Contains(s, sep)
        THEN SubSeq(s, 1, NextMatch(s, 1, sep) - 1)
    ELSE s

Http  == <<"h", "t", "t", "p">>
HttpPrefix  == <<"h", "t", "t", "p", ":", "/", "/">>
HttpsPrefix == <<"h", "t", "t", "p", "s", ":", "/", "/">>

\* Formatter._domain_name, for a url that starts http:// or https://
DomainName(url) ==
    (IF StartsAt(url, 1, HttpsPrefix) THEN HttpsPrefix ELSE HttpPrefix)
        \o BeforeFirst(AfterLast(url, 1, 1, <<"/", "/">>), <<"/">>)

\* lines 238-243: the bracketed form of one anchor's target
Marker(dom, href) ==
    IF ~Contains(href, Http) THEN <<"[">> \o dom \o href \o <<"]">>
    ELSE <<"[">> \o href \o <<"]">>

\* r_urls.update({href: url.text}): r_urls is keyed by the bracketed target
UrlsUpdate(r_urls, href, text) ==
    IF \E i \in 1..Len(r_urls) : r_urls[i].key = href
        THEN [i \in 1..Len(r_urls) |->
                 IF r_urls[i].key = href THEN [key |-> href, val |-> text] ELSE r_urls[i]]
    ELSE Append(r_urls, [key |-> href, val |-> text])

RECURSIVE GetUrlsLoop(_, _, _)
GetUrlsLoop(r_urls, urls, dom) ==
    IF urls = <<>> THEN r_urls
    ELSE GetUrlsLoop(UrlsUpdate(r_urls, Marker(dom, Head(urls).href), Head(urls).text),
                     Tail(urls), dom)

\* Formatter._get_urls: a dict, its items in insertion order
GetUrls(urls, url) == GetUrlsLoop(<<>>, urls, DomainName(url))

\* re.sub(pattern, repl, text) for a pattern and a repl of ordinary characters
ReSub(pattern, repl, text) == Replace(text, pattern, repl)

RECURSIVE AddUrlsLoop(_, _, _)
AddUrlsLoop(text, prepared_urls, i) ==
    IF i > Len(prepared_urls) THEN text
    ELSE AddUrlsLoop(ReSub(prepared_urls[i].val,
                           prepared_urls[i].val \o <<" ">> \o prepared_urls[i].key,
                           text),
                     prepared_urls, i + 1)

\* Formatter._add_urls
AddUrls(text, prepared_urls) == AddUrlsLoop(text, prepared_urls, 1)

RECURSIVE SplitParagraphs(_, _)
\* lines 289-292, texts being p.text of every p in order
SplitParagraphs(string, texts) ==
    IF texts = <<>> THEN string
    ELSE IF Head(texts) = <<>> THEN SplitParagraphs(string, Tail(texts))
    ELSE SplitParagraphs(
             Replace(string, Strip(Head(texts)),
                     <<"\n">> \o Strip(Head(texts)) \o <<"\n">>),
             Tail(texts))

\* Formatter.prepare_text(soup, max_length) of a Formatter(domain=url)
PrepareTextOf(t, dec, url, max_length) ==
    LET paragr  == FindAll_(t, dec, 0, "p")
        urls    == FindAll_(t, dec, 0, "a")
        string0 == Replace(Strip(Replace(TextOf(t, dec, 0), <<"\n">>, <<>>)),
                           <<"\\", "s", "+">>, <<" ">>)
        string  == SplitParagraphs(string0,
                       [i \in 1..Len(paragr) |-> TextOf(t, dec, paragr[i])])
        prepared_urls == GetUrls([i \in 1..Len(urls) |->
                                     [href |-> t.href[urls[i]],
                                      text |-> TextOf(t, dec, urls[i])]], url)
    IN  Reflow(AddUrls(string, prepared_urls), max_length)

\* lines 372-378: prepare_text on what main_content returned
PrepareText ==
    /\ outcome = "returned"
    /\ ~output.set
    /\ output' = [set |-> TRUE,
                  text |-> PrepareTextOf(tree, decomposed, config.domain, config.max_length)]
    /\ UNCHANGED <<tree, config, decomposed, stack, outcome, visits, spared, maxNest>>
    /\ UNCHANGED <<wrapVars, linkVars>>

\* the reflow of lines 298-327 on a text of its own
Wrap ==
    /\ wstage = "input"
    /\ wout' = Reflow(wtext, wmax)
    /\ wstage' = "wrapped"
    /\ UNCHANGED <<wtext, wmax, wout2, pruneVars, linkVars>>

\* the reflow of lines 298-327 on what it returned
Rewrap ==
    /\ wstage = "wrapped"
    /\ wout2' = Reflow(wout, wmax)
    /\ wstage' = "rewrapped"
    /\ UNCHANGED <<wtext, wmax, wout, pruneVars, linkVars>>

\* lines 295-296: _get_urls, then _add_urls
Annotate ==
    /\ lstage = "input"
    /\ annotated' = AddUrls(page, GetUrls(anchors, domain))
    /\ lstage' = "annotated"
    /\ UNCHANGED <<anchors, page, domain, pruneVars, wrapVars>>

(***************************************************************************)
(* Inputs                                                                  *)
(***************************************************************************)

\* the most nodes of a tree drawn freely
MaxNodes == 4
\* the most childless p nodes, and the most nested p nodes, of a section tree
MaxLeafP == 2
MaxChainP == 3
\* the most pieces of a text given to the reflow, and the widths up to which
\* every max_length is tried
MaxPieces == 4
MaxWidth == 4
\* the most anchors, and the most pieces of the text they annotate
MaxAnchors == 2
MaxWords == 3

\* Config.MAX_LENGTH
MAX_LENGTH == 80

\* forced as line 372 passes it to main_content
FORCED == TRUE

\* Config.CUSTOM_COEFF, 0.5
CUSTOM_COEFF == [num |-> 1, den |-> 2]

ExampleUrl == <<"h", "t", "t", "p", "s", ":", "/", "/", "e", "x", "a", "m", "p", "l", "e", ".", "c", "o", "m", "/", "b", "l", "o", "g">>

\* Config.STRATEGY: "None" is None, "OTHER" any str but 'AVG' and 'CUSTOM'
Strategies == {"AVG", "CUSTOM", "None", "OTHER"}

Coefs == {CUSTOM_COEFF, [num |-> 1, den |-> 1]}

Configs ==
    {[strategy |-> s, coef |-> c, forced |-> f, max_length |-> MAX_LENGTH,
      domain |-> ExampleUrl] :
        s \in Strategies, c \in Coefs, f \in BOOLEAN}
    \ {cf \in [strategy : Strategies, coef : Coefs, forced : BOOLEAN,
               max_length : {MAX_LENGTH}, domain : {ExampleUrl}] :
           cf.strategy # "CUSTOM" /\ cf.coef # CUSTOM_COEFF}

GenTags == {"div", "p", "h1"}

\* a tree of Tags: one child of soup, tagged html, the others below it
PlainTree(n, par, tg) ==
    [n |-> n,
     parent |-> [i \in 1..n |-> IF i = 1 THEN 0 ELSE par[i]],
     tag    |-> [i \in 1..n |-> IF i = 1 THEN "html" ELSE tg[i]],
     text   |-> [i \in 1..n |-> <<>>],
     href   |-> [i \in 1..n |-> <<>>]]

PlainTrees ==
    UNION {{PlainTree(n, par, tg) :
                par \in {q \in [2..n -> 1..(n - 1)] : \A i \in 2..n : q[i] < i},
                tg \in [2..n -> GenTags]} : n \in 0..MaxNodes}

\* html > [section > [div > [j childless p], p > p > ... (k nested)], m > leaf]:
\* a section with j + k paragraphs beside a sibling tagged mtag, whose only
\* child is tagged leaf
SectionTree(j, k, mtag, leaf) ==
    LET n == 5 + j + k
        m == 4 + j + k
    IN  [n |-> n,
         parent |-> [i \in 1..n |->
                        IF i = 1 THEN 0
                        ELSE IF i = 2 \/ i = m THEN 1
                        ELSE IF i = 3 THEN 2
                        ELSE IF i <= 3 + j THEN 3
                        ELSE IF i = 4 + j /\ i < m THEN 2
                        ELSE i - 1],
         tag    |-> [i \in 1..n |->
                        IF i = 1 THEN "html"
                        ELSE IF i = 2 \/ i = 3 THEN "div"
                        ELSE IF i < m THEN "p"
                        ELSE IF i = m THEN mtag
                        ELSE leaf],
         text   |-> [i \in 1..n |-> <<>>],
         href   |-> [i \in 1..n |-> <<>>]]

\* the sibling of the section holds a b, or is a div that holds an h1
SectionTrees ==
    {SectionTree(j, k, mtag, "b") : j \in 0..MaxLeafP, k \in 0..MaxChainP,
                                    mtag \in {"div", "p", "h2"}}
    \cup {SectionTree(j, k, "div", "h1") : j \in 0..MaxLeafP, k \in 0..MaxChainP}

Dots == <<".", ".", ".">>
HelloWorld == <<"H", "e", "l", "l", "o", " ", "w", "o", "r", "l", "d", ".">>

\* <div><nav>...</nav><p>Hello world.</p></div>
NavTree ==
    [n |-> 5,
     parent |-> <<0, 1, 2, 1, 4>>,
     tag    |-> <<"div", "nav", "#text", "p", "#text">>,
     text   |-> <<<<>>, <<>>, Dots, <<>>, HelloWorld>>,
     href   |-> <<<<>>, <<>>, <<>>, <<>>, <<>>>>]

\* <div><a href="/about">About</a><p>About us.</p></div>
AboutTree ==
    [n |-> 5,
     parent |-> <<0, 1, 2, 1, 4>>,
     tag    |-> <<"div", "a", "#text", "p", "#text">>,
     text   |-> <<<<>>, <<>>, <<"A", "b", "o", "u", "t">>, <<>>, <<"A", "b", "o", "u", "t", " ", "u", "s", ".">>>>,
     href   |-> <<<<>>, <<"/", "a", "b", "o", "u", "t">>, <<>>, <<>>, <<>>>>]

\* <html><div><h1></h1><p><b></b></p><div><p></p></div></div><div><b></b></div></html>
ArticleTree ==
    [n |-> 9,
     parent |-> <<0, 1, 2, 2, 4, 2, 6, 1, 8>>,
     tag    |-> <<"html", "div", "h1", "p", "b", "div", "p", "div", "b">>,
     text   |-> [i \in 1..9 |-> <<>>],
     href   |-> [i \in 1..9 |-> <<>>]]

InputTrees == PlainTrees \cup SectionTrees \cup {NavTree, AboutTree, ArticleTree}

NoTree == [n |-> 0, parent |-> <<>>, tag |-> <<>>, text |-> <<>>, href |-> <<>>]

PruneIdle ==
    /\ tree = NoTree
    /\ config = [strategy |-> "CUSTOM", coef |-> CUSTOM_COEFF, forced |-> FORCED,
                 max_length |-> MAX_LENGTH, domain |-> ExampleUrl]
    /\ decomposed = {}
    /\ stack = <<>>
    /\ outcome = "off"
    /\ visits = <<>>
    /\ spared = {}
    /\ maxNest = 0
    /\ output = [set |-> FALSE, text |-> <<>>]

WrapIdle ==
    /\ wtext = <<>>
    /\ wmax = 0
    /\ wout = <<>>
    /\ wout2 = <<>>
    /\ wstage = "off"

LinkIdle ==
    /\ anchors = <<>>
    /\ page = <<>>
    /\ domain = <<>>
    /\ annotated = <<>>
    /\ lstage = "off"

(***************************************************************************)
(* main_content on a tree, then prepare_text on what it returned           *)
(***************************************************************************)

\* the runs: every configuration on the section and the scenario trees; on a
\* tree drawn freely no node that line 170 tests has more than 3 p below it,
\* and forced is left as line 372 passes it
Inputs ==
    {<<t, cf>> \in InputTrees \X Configs :
        t \in PlainTrees => cf.forced = FORCED}

Init ==
    /\ \E in \in Inputs : tree = in[1] /\ config = in[2]
    /\ decomposed = {}
    /\ stack = <<EntryFrame>>
    /\ outcome = "running"
    /\ visits = [n \in 1..tree.n |-> 0]
    /\ spared = {}
    /\ maxNest = 1
    /\ output = [set |-> FALSE, text |-> <<>>]
    /\ WrapIdle
    /\ LinkIdle

Next == EntryPoint \/ EnterLoops \/ Evaluate \/ Recurse \/ Return \/ PrepareText

Spec == Init /\ [][Next]_vars

(***************************************************************************)
(* The reflow on texts of its own                                          *)
(***************************************************************************)

MarkerPiece == <<"[", "h", "t", "t", "p", ":", "/", "/", "x", "]">>

Pieces == {<<"a">>, <<"b", "b">>, <<" ">>, <<"\n">>, <<".">>, MarkerPiece}

RECURSIVE TextsOf(_, _)
\* the texts made of k pieces
TextsOf(pieces, k) ==
    IF k = 0 THEN {<<>>}
    ELSE {t \o q : t \in TextsOf(pieces, k - 1), q \in pieces}

Widths == (1..MaxWidth) \cup {Len(MarkerPiece), Len(MarkerPiece) + 1, Len(MarkerPiece) + 3}

WrapInit ==
    /\ wtext \in UNION {TextsOf(Pieces, k) : k \in 0..MaxPieces}
    /\ wmax \in Widths
    /\ wout = <<>>
    /\ wout2 = <<>>
    /\ wstage = "input"
    /\ PruneIdle
    /\ LinkIdle

WrapNext == Wrap \/ Rewrap

SpecWrap == WrapInit /\ [][WrapNext]_vars

(***************************************************************************)
(* The annotation on anchors and a text of their own                       *)
(***************************************************************************)

Hrefs == {<<"/", "a">>, <<"/", "x">>, <<"h", "t", "t", "p", ":", "/", "/", "y">>}

AnchorTexts == {<<"a">>, <<"b">>}

Anchors == [href : Hrefs, text : AnchorTexts]

RECURSIVE SeqsOf(_, _)
\* the sequences of k elements of S
SeqsOf(S, k) ==
    IF k = 0 THEN {<<>>}
    ELSE {Append(q, x) : q \in SeqsOf(S, k - 1), x \in S}

LinkInit ==
    /\ anchors \in UNION {SeqsOf(Anchors, k) : k \in 0..MaxAnchors}
    /\ page \in UNION {TextsOf({<<"a">>, <<"b">>, <<" ">>}, k) : k \in 0..MaxWords}
    /\ domain \in {ExampleUrl, <<"h", "t", "t", "p", ":", "/", "/", "e", ".", "c", "o">>}
    /\ annotated = <<>>
    /\ lstage = "input"
    /\ PruneIdle
    /\ WrapIdle

LinkNext == Annotate

SpecLinks == LinkInit /\ [][LinkNext]_vars

(***************************************************************************)
(* What the properties below speak of                                      *)
(***************************************************************************)

Recognized == config.strategy \in {"AVG", "CUSTOM"}

One == [num |-> 1, den |-> 1]

\* a node's density in the tree as given to main_content
DepthGiven(x) == CalcDepth(tree, {}, x)

\* the Tags of the sibling set of x in the tree as given, x among them
SiblingsGiven(x) ==
    {c \in 1..tree.n : tree.parent[c] = tree.parent[x] /\ IsTag(tree, c)}

\* the sum of the densities of the sibling set of x in the tree as given
SiblingSumGiven(x) ==
    LET sibs == SortedSeq(SiblingsGiven(x))
    IN  SumOf([i \in 1..Len(sibs) |-> DepthGiven(sibs[i])])

\* the number of p descendants of x in the tree as given
ParagraphsGiven(x) == Len(FindAll_(tree, {}, x, "p"))

\* the lines of a text
LinesOf(s) ==
    LET breaks == {0, Len(s) + 1} \cup {i \in 1..Len(s) : s[i] = "\n"}
    IN  {SubSeq(s, q[1] + 1, q[2] - 1) :
            q \in {r \in breaks \X breaks :
                      r[1] < r[2] /\ \A e \in breaks : ~(r[1] < e /\ e < r[2])}}

TokenSet(s) == {Tokens(s)[i] : i \in 1..Len(Tokens(s))}

\* the marker of the i-th anchor
MarkerOf(i) == Marker(DomainName(domain), anchors[i].href)

(***************************************************************************)
(* Properties                                                              *)
(***************************************************************************)

\* C1, as claimed: every node tagged p, h1 or h2 of the tree given to
\* main_content is still in the tree, whatever main_content has done so far.
C1_ContentNodesStayInTree ==
    Recognized =>
        \A n \in 1..tree.n :
            tree.tag[n] \in {"p", "h1", "h2"} => Alive(tree, decomposed, n)

\* C1, amended: decompose() is never called on a node tagged p, h1 or h2; a
\* node tagged h1 is never taken out of the tree at all; a node tagged p or
\* h2 leaves the tree only inside the subtree of a removed ancestor, which is
\* not tagged p, h1 or h2 and holds no h1.
C1_ContentNodesNeverPruned ==
    \A n \in 1..tree.n :
        tree.tag[n] \in {"p", "h1", "h2"} =>
            /\ n \notin decomposed
            /\ tree.tag[n] = "h1" => Alive(tree, decomposed, n)
            /\ ~Alive(tree, decomposed, n) =>
                   \E a \in decomposed :
                       /\ a # n
                       /\ InSubtree(tree, a, n)
                       /\ tree.tag[a] \notin {"p", "h1", "h2"}
                       /\ FindAll_(tree, {}, a, "h1") = <<>>

\* C1: main_content returned, having kept a node for nothing but the h1 it
\* holds, its density below the threshold that removed one of its siblings,
\* and having left a p where it was, its density below such a threshold too,
\* while another p went with the subtree of a removed ancestor.
C1_Witness ==
    /\ outcome = "returned"
    /\ \E a \in spared, m \in decomposed :
           /\ tree.tag[a] \notin {"p", "h1", "h2"}
           /\ ~(config.forced /\ ParagraphsGiven(a) > ForcedMinP)
           /\ tree.parent[m] = tree.parent[a]
           /\ \E h \in 1..tree.n :
                  /\ tree.tag[h] = "h1"
                  /\ InSubtree(tree, a, h)
                  /\ Alive(tree, decomposed, h)
    /\ \E n \in spared :
           /\ tree.tag[n] = "p"
           /\ Alive(tree, decomposed, n)
    /\ \E n \in 1..tree.n :
           /\ tree.tag[n] = "p"
           /\ ~Alive(tree, decomposed, n)

\* C2: every line of the reflowed text has at most max_length characters,
\* or is one token of the text given, longer than max_length, alone and whole.
C2_LinesWithinWidth ==
    wstage \in {"wrapped", "rewrapped"} =>
        \A line \in LinesOf(wout) :
            \/ Len(line) <= wmax
            \/ /\ line \in TokenSet(wtext)
               /\ Tokens(line) = <<line>>

\* C2: a reflowed text with a line that only holds a token longer than
\* max_length, and another line that holds more than one token.
C2_Witness ==
    /\ wstage = "wrapped"
    /\ wmax >= 2
    /\ \E long \in LinesOf(wout), short \in LinesOf(wout) :
           /\ Len(long) > wmax
           /\ Len(short) <= wmax
           /\ Len(Tokens(short)) >= 2

\* C3, as claimed: reflowing a reflowed text, none of whose tokens is longer
\* than max_length, gives the same text.
C3_RewrapIsIdentity ==
    (/\ wstage = "rewrapped"
     /\ \A tok \in TokenSet(wtext) : Len(tok) <= wmax)
        => wout2 = wout

\* C4, as claimed: on <div><nav>...</nav><p>Hello world.</p></div> with
\* CUSTOM, 0.5 and forced off, nav is removed, p is kept and the text
\* prepare_text returns at max_length 80 is "Hello world.\n".
C4_NavScenario ==
    (/\ tree = NavTree
     /\ config.strategy = "CUSTOM"
     /\ config.coef = CUSTOM_COEFF
     /\ ~config.forced
     /\ config.max_length = 80
     /\ output.set)
        => /\ 2 \in decomposed
           /\ Alive(tree, decomposed, 4)
           /\ output.text = HelloWorld \o <<"\n">>

\* C5: under CUSTOM with coefficient 1.0, decompose() is never called on a
\* node whose density, in the tree as given, is at least the sum of the
\* densities of its sibling set.
C5_DominantNodeKept ==
    (config.strategy = "CUSTOM" /\ config.coef = One) =>
        \A n \in 1..tree.n :
            (IsTag(tree, n) /\ DepthGiven(n) >= SiblingSumGiven(n))
                => n \notin decomposed

\* C5: main_content returned under CUSTOM with coefficient 1.0, having removed
\* something and having judged by its density, and kept, a node with children
\* whose density is the whole sum of its sibling set.
C5_Witness ==
    /\ outcome = "returned"
    /\ config.strategy = "CUSTOM"
    /\ config.coef = One
    /\ decomposed # {}
    /\ \E n \in 1..tree.n :
           /\ visits[n] > 0
           /\ tree.tag[n] = "div"
           /\ FindAll_(tree, {}, n, "h1") = <<>>
           /\ ~(config.forced /\ ParagraphsGiven(n) > 3)
           /\ DepthGiven(n) > 0
           /\ DepthGiven(n) >= SiblingSumGiven(n)
           /\ Alive(tree, decomposed, n)

\* C6, as claimed: of two anchors with the same display text and different
\* targets, only the later one's marker is put after the text; the earlier
\* one's marker is nowhere in the annotated text.
C6_LastAnchorWins ==
    (/\ lstage = "annotated"
     /\ Len(anchors) = 2
     /\ anchors[1].text = anchors[2].text
     /\ MarkerOf(1) # MarkerOf(2)
     /\ Contains(page, anchors[1].text))
        => /\ ~Contains(annotated, MarkerOf(1))
           /\ Contains(annotated, anchors[2].text \o <<" ">> \o MarkerOf(2))

\* C7, as claimed: with a strategy that is absent or not recognized,
\* main_content never returns normally and removes nothing.
C7_BadStrategyIsFatal ==
    ~Recognized => (outcome # "returned" /\ decomposed = {})

\* C8, as claimed: within one call of main_content no node is taken by the
\* loop over a sibling set more than once, and once it has returned every
\* Tag still in the tree below the children of soup was taken exactly once.
C8_EachNodeEvaluatedOnce ==
    Recognized =>
        /\ \A n \in 1..tree.n : visits[n] <= 1
        /\ outcome = "returned" =>
               \A n \in 1..tree.n :
                   (IsTag(tree, n) /\ tree.parent[n] # 0 /\ Alive(tree, decomposed, n))
                       => visits[n] = 1

\* C9, as claimed: with forced on, a node with more than 3 p descendants in
\* the tree given to main_content is still in the tree.
C9_ForcedKeepsSections ==
    (config.forced /\ Recognized) =>
        \A n \in 1..tree.n :
            (IsTag(tree, n) /\ ParagraphsGiven(n) > 3) => Alive(tree, decomposed, n)

\* how far a frame has come: lines 128-181 in the order a call runs them
Progress(f) ==
    IF f.pc = "entry" THEN 0
    ELSE IF f.pc = "resume" THEN 1
    ELSE IF f.pc = "outer" THEN 2 + (f.oi - 1) * (tree.n + 3)
    ELSE IF f.pc = "recurse" THEN 2 + (f.oi - 1) * (tree.n + 3) + f.ri
    ELSE 2 + (tree.n + 1) * (tree.n + 3)

\* the place of the run in the tree of calls: per frame, outermost first,
\* twice its progress, less one while a call it made is running; past every
\* such place once main_content is over
Rank(stk, out) ==
    IF out # "running" THEN <<2 * (2 + (tree.n + 1) * (tree.n + 3)) + 1>>
    ELSE [i \in 1..Len(stk) |->
             IF i = Len(stk) THEN 2 * Progress(stk[i]) ELSE 2 * Progress(stk[i]) - 1]

\* a comes before b in the dictionary order
LexLess(a, b) ==
    \E k \in 1..Len(b) :
        /\ \A i \in 1..(k - 1) : i <= Len(a) /\ a[i] = b[i]
        /\ k > Len(a) \/ a[k] < b[k]

\* C10: under AVG and under CUSTOM main_content raises nothing; its calls
\* never nest deeper than the depth of the tree given plus 2; while it runs
\* it can take a step, and every step moves it forward in the tree of its
\* calls, whose depth and width the tree given bounds: it returns.
C10_PruneTerminates ==
    /\ [](/\ maxNest <= DepthGiven(0) + 2
          /\ Len(stack) <= maxNest
          /\ Recognized => outcome # "raised"
          /\ outcome = "running" =>
                 /\ stack # <<>>
                 /\ Top.pc \in {"entry", "resume", "outer", "recurse", "return"}
                 /\ Top.pc = "outer" => Top.oi \in 1..Len(Top.outer)
                 /\ Top.pc = "recurse" => Top.ri \in 1..Len(Top.density)
          /\ \A i \in 1..Len(stack) :
                 /\ stack[i].oi \in 1..(tree.n + 1)
                 /\ stack[i].ri \in 1..(tree.n + 2))
    /\ [][outcome = "running" => LexLess(Rank(stack, outcome), Rank(stack', outcome'))]_vars

\* C10: main_content returned under AVG, having removed something, skipped
\* an empty sibling set and nested its calls as deep as the tree given.
C10_Witness ==
    /\ outcome = "returned"
    /\ config.strategy = "AVG"
    /\ decomposed # {}
    /\ maxNest >= 4
    /\ maxNest >= DepthGiven(0) + 1

====
